---- MODULE Spec2Model ----
(***************************************************************************)
(* Model of js/main.js: the navigation menu, the theme toggle and the      *)
(* lightbox of the portfolio site, as handlers over the DOM.  Every        *)
(* handler is an operator from a document record to a document record;     *)
(* an event is dispatched by applying, in registration order, every        *)
(* listener the event reaches.                                             *)
(***************************************************************************)
EXTENDS Integers, Sequences, FiniteSets, TLC

VARIABLES env, doc, ev, hist, nav

vars == <<env, doc, ev, hist, nav>>

\* Bounds of the model: number of .nav-link elements and of gallery images.
MaxLinks == 2
MaxGallery == 2

(***************************************************************************)
(* Elements                                                                *)
(***************************************************************************)
El(kind, idx) == [kind |-> kind, idx |-> idx]

Undefined == El("undefined", 0)
Body == El("body", 0)
NavToggle == El("navToggle", 0)
NavMenu == El("navMenu", 0)
NavLink(i) == El("navLink", i)
ThemeToggle == El("themeToggle", 0)
GalleryImg(i) == El("galleryImg", i)
Lightbox == El("lightbox", 0)
LightboxImg == El("lightboxImg", 0)
LightboxClose == El("lightboxClose", 0)

\* Same-page anchors, a[href^="#"], one per kind of href, and the element
\* the second one names.
AnchorHash == El("anchor", 1)
AnchorFound == El("anchor", 2)
AnchorMissing == El("anchor", 3)
AnchorInvalid == El("anchor", 4)
ScrollTarget == El("scrollTarget", 0)

\* this.getAttribute('href')
Href(a) ==
    CASE a = AnchorHash -> "#"
      [] a = AnchorFound -> "#section"
      [] a = AnchorMissing -> "#nowhere"
      [] a = AnchorInvalid -> "#1"

\* document.querySelector rejects an id selector that starts with a digit.
ValidSelector(sel) == sel # "#1"

\* document.querySelector(sel): the element, or null.
QuerySelector(sel) == IF sel = "#section" THEN ScrollTarget ELSE Undefined

\* The src and alt attributes of the i-th gallery image; "" before any open.
ImgSrc(i) == [attr |-> "src", of |-> i]
ImgAlt(i) == [attr |-> "alt", of |-> i]
NoSrc == [attr |-> "src", of |-> 0]
NoAlt == [attr |-> "alt", of |-> 0]

Keys == {"Escape", "Tab", "Enter", "a"}

\* The elements the page holds, given which of them the markup provides.
Elements ==
    {Body}
    \cup (IF env.navToggle THEN {NavToggle} ELSE {})
    \cup (IF env.navMenu THEN {NavMenu} \cup {NavLink(i) : i \in 1..env.numLinks} ELSE {})
    \cup (IF env.themeToggle THEN {ThemeToggle} ELSE {})
    \cup {GalleryImg(i) : i \in 1..env.numGallery}
    \cup (IF env.lightbox THEN {Lightbox} ELSE {})
    \cup (IF env.lightboxImg THEN {LightboxImg} ELSE {})
    \cup (IF env.lightboxClose THEN {LightboxClose} ELSE {})
    \cup (IF env.anchors
          THEN {AnchorHash, AnchorFound, AnchorMissing, AnchorInvalid, ScrollTarget}
          ELSE {})

\* Elements the user can move keyboard focus to (document.activeElement);
\* the scroll target takes focus only from the script.
Focusable == Elements \ {Lightbox, LightboxImg, ScrollTarget}

\* navToggle.contains(t) / navMenu.contains(t)
InToggle(t) == env.navToggle /\ t = NavToggle
InMenu(t) == env.navMenu /\ t.kind \in {"navMenu", "navLink"}

(***************************************************************************)
(* Which listeners init() attached                                         *)
(***************************************************************************)
\* initNavigation returns early unless both elements exist.
NavInit == env.navToggle /\ env.navMenu

\* initDarkMode returns early without the toggle.
ThemeInit == env.themeToggle

\* initLightbox returns early without the overlay or without gallery images;
\* past that the open handlers are attached to every gallery image.
LbOpenInit == env.lightbox /\ env.numGallery > 0

\* lightboxClose.addEventListener throws on a missing close button, so the
\* three close listeners exist only when it is there.
LbCloseInit == LbOpenInit /\ env.lightboxClose

\* init() raised: the close button is missing where initLightbox needs it.
InitThrows == LbOpenInit /\ ~env.lightboxClose

(***************************************************************************)
(* Primitive DOM effects                                                   *)
(***************************************************************************)
Throw(d) == [d EXCEPT !.error = TRUE]

\* el.focus(); a TypeError when el is null or undefined.
Focus(d, el) ==
    IF el = Undefined \/ el \notin Elements THEN Throw(d)
    ELSE [d EXCEPT !.focus = el]

PreventDefault(d) == [d EXCEPT !.defaultPrevented = TRUE]

(***************************************************************************)
(* Navigation                                                              *)
(***************************************************************************)
\* closeMenu that forgets the trigger's attribute.
closeMenu_keepsAria(d) == [d EXCEPT !.menuActive = FALSE]

closeMenu(d) == [d EXCEPT !.menuActive = FALSE, !.ariaExpanded = "false"]

\* openMenu without the guard on the first link.
openMenu_unguarded(d) ==
    LET d1 == [d EXCEPT !.menuActive = TRUE, !.ariaExpanded = "true"]
        firstLink == IF env.numLinks > 0 THEN NavLink(1) ELSE Undefined
    IN  Focus(d1, firstLink)

openMenu(d) ==
    LET d1 == [d EXCEPT !.menuActive = TRUE, !.ariaExpanded = "true"]
        firstLink == IF env.numLinks > 0 THEN NavLink(1) ELSE Undefined
    IN  IF firstLink # Undefined THEN Focus(d1, firstLink) ELSE d1

\* A toggleMenu that hands focus back to the trigger when it closes.
toggleMenu_refocuses(d) ==
    IF d.menuActive THEN Focus(closeMenu(d), NavToggle) ELSE openMenu(d)

toggleMenu(d) == IF d.menuActive THEN closeMenu(d) ELSE openMenu(d)

handleMenuKeydown(d, e) ==
    LET firstLink == IF env.numLinks > 0 THEN NavLink(1) ELSE Undefined
        lastLink == IF env.numLinks > 0 THEN NavLink(env.numLinks) ELSE Undefined
    IN  IF e.key = "Tab"
        THEN IF e.shift /\ d.focus = firstLink
             THEN Focus(PreventDefault(d), lastLink)
             ELSE IF ~e.shift /\ d.focus = lastLink
                  THEN Focus(PreventDefault(d), firstLink)
                  ELSE d
        ELSE d

\* A document click listener that only spares the trigger.
navDocumentClick_sparesToggleOnly(d, e) ==
    IF ~InToggle(e.target) THEN closeMenu(d) ELSE d

\* document click listener of initNavigation
navDocumentClick(d, e) ==
    IF ~InToggle(e.target) /\ ~InMenu(e.target) THEN closeMenu(d) ELSE d

\* An Escape listener that does not look at the menu's state.
navDocumentKeydown_anyState(d, e) ==
    IF e.key = "Escape" THEN Focus(closeMenu(d), NavToggle) ELSE d

\* document keydown listener of initNavigation
navDocumentKeydown(d, e) ==
    IF e.key = "Escape" /\ d.menuActive
    THEN Focus(closeMenu(d), NavToggle)
    ELSE d

(***************************************************************************)
(* Active navigation link                                                  *)
(***************************************************************************)
\* Paths and hrefs are strings, written as sequences over an alphabet of
\* segments so that endsWith is computed and not assumed.
RootPath == <<"/">>
IndexPath == <<"/", "index.html">>
AboutPath == <<"/", "about.html">>
DirPath == <<"/", "blog", "/">>
DeepPath == <<"/", "blog", "/", "about.html">>
Paths == {RootPath, IndexPath, AboutPath, DirPath, DeepPath}

IndexHref == <<"index.html">>
AboutHref == <<"about.html">>
ContactHref == <<"contact.html">>
Hrefs == {IndexHref, AboutHref, ContactHref}

\* String.prototype.endsWith
EndsWith(str, suffix) ==
    /\ Len(suffix) <= Len(str)
    /\ SubSeq(str, Len(str) - Len(suffix) + 1, Len(str)) = suffix

\* An updateActiveNav that marks matches and never clears a stale marker.
markLink_neverClears(currentPath, link) ==
    LET href == link.href
        isActive == \/ EndsWith(currentPath, href)
                    \/ (currentPath = RootPath /\ href = IndexHref)
                    \/ (EndsWith(currentPath, <<"/">>) /\ href = IndexHref)
    IN  IF isActive
        THEN [link EXCEPT !.active = TRUE, !.ariaCurrent = "page"]
        ELSE link

\* The body of updateActiveNav's forEach, on one link.
markLink(currentPath, link) ==
    LET href == link.href
        isActive == \/ EndsWith(currentPath, href)
                    \/ (currentPath = RootPath /\ href = IndexHref)
                    \/ (EndsWith(currentPath, <<"/">>) /\ href = IndexHref)
    IN  IF isActive
        THEN [link EXCEPT !.active = TRUE, !.ariaCurrent = "page"]
        ELSE [link EXCEPT !.active = FALSE, !.ariaCurrent = "absent"]

updateActiveNav(n) ==
    [n EXCEPT !.links = [i \in DOMAIN n.links |-> markLink(n.path, n.links[i])],
              !.updated = TRUE]

\* A .nav-link as the markup states it.
Link(href, active, ariaCurrent) ==
    [href |-> href, active |-> active, ariaCurrent |-> ariaCurrent]

\* The navigation of a page at path with the given links, before init().
ParsedNav(path, links) ==
    [path |-> path, markup |-> links, links |-> links, updated |-> FALSE]

(***************************************************************************)
(* Smooth scroll                                                           *)
(***************************************************************************)
\* A click handler that suppresses the default before it looks anything up.
smoothScrollClick_preventsFirst(d, e) ==
    LET targetId == Href(e.target)
        d1 == PreventDefault(d)
    IN  IF targetId = "#" THEN d1
        ELSE IF ~ValidSelector(targetId) THEN Throw(d1)
        ELSE LET targetElement == QuerySelector(targetId)
             IN  IF targetElement # Undefined
                 THEN Focus([d1 EXCEPT !.scrollRequested = TRUE,
                                       !.targetTabindex = "-1"],
                            targetElement)
                 ELSE d1

\* The click listener initSmoothScroll puts on every same-page anchor.
smoothScrollClick(d, e) ==
    LET targetId == Href(e.target)
    IN  IF targetId = "#" THEN d
        ELSE IF ~ValidSelector(targetId) THEN Throw(d)
        ELSE LET targetElement == QuerySelector(targetId)
             IN  IF targetElement # Undefined
                 THEN Focus([PreventDefault(d) EXCEPT !.scrollRequested = TRUE,
                                                     !.targetTabindex = "-1"],
                            targetElement)
                 ELSE d

(***************************************************************************)
(* Theme                                                                   *)
(***************************************************************************)
\* A toggle that can only switch to dark.
newTheme_alwaysDark(currentTheme) == "dark"

\* getAttribute('data-theme') === 'dark' ? 'light' : 'dark'
newTheme(currentTheme) == IF currentTheme = "dark" THEN "light" ELSE "dark"

\* A label that names the mode just applied instead of the next action.
themeLabel_namesCurrent(theme) ==
    IF theme = "dark" THEN "Switch to dark mode" ELSE "Switch to light mode"

\* 'Switch to ' + (newTheme === 'dark' ? 'light' : 'dark') + ' mode'
themeLabel(theme) ==
    IF theme = "dark" THEN "Switch to light mode" ELSE "Switch to dark mode"

\* A click handler that persists the mode it read instead of the one it wrote.
themeToggleClick_staleStore(d) ==
    LET nt == newTheme(d.dataTheme)
    IN  [d EXCEPT !.dataTheme = nt,
                  !.storedTheme = IF d.dataTheme = "dark" THEN "dark" ELSE "light",
                  !.themeLabel = themeLabel(nt)]

themeToggleClick(d) ==
    LET nt == newTheme(d.dataTheme)
    IN  [d EXCEPT !.dataTheme = nt,
                  !.storedTheme = nt,
                  !.themeLabel = themeLabel(nt)]

\* An initDarkMode that lets the system preference win over a saved 'light'.
initDarkMode_systemFirst(d) ==
    IF ~ThemeInit THEN d
    ELSE IF d.storedTheme = "dark" \/ env.systemPrefersDark
         THEN [d EXCEPT !.dataTheme = "dark"]
         ELSE d

\* An initDarkMode that writes an explicit light marker.
initDarkMode_explicitLight(d) ==
    IF ~ThemeInit THEN d
    ELSE IF d.storedTheme = "dark" \/ (d.storedTheme = "unset" /\ env.systemPrefersDark)
         THEN [d EXCEPT !.dataTheme = "dark"]
         ELSE [d EXCEPT !.dataTheme = "light"]

\* An initDarkMode that never consults the system preference.
initDarkMode_ignoresSystem(d) ==
    IF ~ThemeInit THEN d
    ELSE IF d.storedTheme = "dark" THEN [d EXCEPT !.dataTheme = "dark"] ELSE d

\* initDarkMode up to the listener registration: the saved preference, else
\* the system preference, decides whether the dark marker is set.
initDarkMode(d) ==
    IF ~ThemeInit THEN d
    ELSE IF d.storedTheme = "dark" \/ (d.storedTheme = "unset" /\ env.systemPrefersDark)
         THEN [d EXCEPT !.dataTheme = "dark"]
         ELSE d

(***************************************************************************)
(* Lightbox                                                                *)
(***************************************************************************)
\* An open handler that makes the overlay and the menu exclusive.
openLightbox_closesMenu(d, i) ==
    IF ~env.lightboxImg THEN Throw(d)
    ELSE Focus(closeMenu([d EXCEPT !.lbSrc = ImgSrc(i),
                                   !.lbAlt = ImgAlt(i),
                                   !.lbActive = TRUE,
                                   !.overflow = "hidden"]),
               IF env.lightboxClose THEN LightboxClose ELSE Undefined)

\* The click / Enter handler of the i-th gallery image.
openLightbox(d, i) ==
    IF ~env.lightboxImg THEN Throw(d)
    ELSE Focus([d EXCEPT !.lbSrc = ImgSrc(i),
                         !.lbAlt = ImgAlt(i),
                         !.lbActive = TRUE,
                         !.overflow = "hidden"],
               IF env.lightboxClose THEN LightboxClose ELSE Undefined)

\* A keydown handler that opens on any key.
galleryKeydown_anyKey(d, e, i) == openLightbox(d, i)

galleryKeydown(d, e, i) == IF e.key = "Enter" THEN openLightbox(d, i) ELSE d

\* A closeLightbox that leaves page scrolling suppressed.
closeLightbox_keepsOverflow(d) == [d EXCEPT !.lbActive = FALSE]

closeLightbox(d) == [d EXCEPT !.lbActive = FALSE, !.overflow = ""]

\* An overlay listener that closes wherever the click landed.
lightboxClick_anyTarget(d, e) == closeLightbox(d)

\* click listener on the overlay
lightboxClick(d, e) == IF e.target = Lightbox THEN closeLightbox(d) ELSE d

\* document keydown listener of initLightbox
lightboxDocumentKeydown(d, e) ==
    IF e.key = "Escape" /\ d.lbActive THEN closeLightbox(d) ELSE d

\* initLightbox: the registration on a missing close button raises.
initLightbox(d) == IF InitThrows THEN Throw(d) ELSE d

(***************************************************************************)
(* Event dispatch: target listeners first, then ancestors, then document.  *)
(***************************************************************************)
Begin(d) ==
    [d EXCEPT !.defaultPrevented = FALSE, !.error = FALSE, !.scrollRequested = FALSE]

DispatchClick(d, e) ==
    LET t  == e.target
        d0 == Begin(d)
        d1 == IF NavInit /\ InToggle(t) THEN toggleMenu(d0) ELSE d0
        d2 == IF LbOpenInit /\ t.kind = "galleryImg" THEN openLightbox(d1, t.idx) ELSE d1
        d3 == IF ThemeInit /\ t = ThemeToggle THEN themeToggleClick(d2) ELSE d2
        d4 == IF LbCloseInit /\ t = LightboxClose THEN closeLightbox(d3) ELSE d3
        d5 == IF LbCloseInit /\ t \in {Lightbox, LightboxImg, LightboxClose}
              THEN lightboxClick(d4, e) ELSE d4
        d6 == IF t.kind = "anchor" THEN smoothScrollClick(d5, e) ELSE d5
        d7 == IF NavInit THEN navDocumentClick(d6, e) ELSE d6
    IN  d7

\* A dispatch where the navigation's Escape handling stops the event before
\* the lightbox's document listener sees it.
DispatchKeydown_menuConsumesEscape(d, e) ==
    LET t  == e.target
        d0 == Begin(d)
        d1 == IF LbOpenInit /\ t.kind = "galleryImg" THEN galleryKeydown(d0, e, t.idx) ELSE d0
        d2 == IF NavInit /\ InMenu(t) THEN handleMenuKeydown(d1, e) ELSE d1
        d3 == IF NavInit THEN navDocumentKeydown(d2, e) ELSE d2
        d4 == IF LbCloseInit /\ ~(NavInit /\ e.key = "Escape" /\ d2.menuActive)
              THEN lightboxDocumentKeydown(d3, e) ELSE d3
    IN  d4

DispatchKeydown(d, e) ==
    LET t  == e.target
        d0 == Begin(d)
        d1 == IF LbOpenInit /\ t.kind = "galleryImg" THEN galleryKeydown(d0, e, t.idx) ELSE d0
        d2 == IF NavInit /\ InMenu(t) THEN handleMenuKeydown(d1, e) ELSE d1
        d3 == IF NavInit THEN navDocumentKeydown(d2, e) ELSE d2
        d4 == IF LbCloseInit THEN lightboxDocumentKeydown(d3, e) ELSE d3
    IN  d4

(***************************************************************************)
(* State machine                                                           *)
(***************************************************************************)
Event(type, target, key, shift) ==
    [type |-> type, target |-> target, key |-> key, shift |-> shift]

\* The freshly parsed document: what the markup states, before init() runs.
\* localStorage outlives the page and is carried in.
Parsed(storedTheme) ==
    [menuActive |-> FALSE,
     ariaExpanded |-> "false",
     focus |-> Body,
     dataTheme |-> "absent",
     storedTheme |-> storedTheme,
     themeLabel |-> "markup",
     lbActive |-> FALSE,
     lbSrc |-> NoSrc,
     lbAlt |-> NoAlt,
     overflow |-> "",
     scrollRequested |-> FALSE,
     targetTabindex |-> "none",
     defaultPrevented |-> FALSE,
     error |-> FALSE]

\* init(): initNavigation, initSmoothScroll and updateActiveNav leave the
\* modelled fields alone; initDarkMode and initLightbox follow.
init(d) == initLightbox(initDarkMode(d))

\* What the markup of a page may provide.  The overlay's image and close
\* button live inside the overlay; .nav-link elements live inside the menu.
Markups ==
    {c \in [navToggle : BOOLEAN, navMenu : BOOLEAN, numLinks : 0..MaxLinks,
            themeToggle : BOOLEAN, systemPrefersDark : BOOLEAN,
            lightbox : BOOLEAN, lightboxImg : BOOLEAN, lightboxClose : BOOLEAN,
            numGallery : 0..MaxGallery, anchors : BOOLEAN] :
        /\ (~c.navMenu => c.numLinks = 0)
        /\ (c.lightboxImg => c.lightbox)
        /\ (c.lightboxClose => c.lightbox)}

\* A page whose markup provides every element the five units look up.
Complete(c) ==
    /\ c.navToggle /\ c.navMenu /\ c.themeToggle
    /\ c.lightbox /\ c.lightboxImg /\ c.lightboxClose /\ c.numGallery > 0

\* The site's own navigation: index.html, about.html, contact.html, ...
SiteHref(i) == IF i = 1 THEN IndexHref ELSE IF i = 2 THEN AboutHref ELSE ContactHref

InitOn(markups) ==
    /\ env \in markups
    /\ \E saved \in {"unset", "light", "dark"} : doc = init(Parsed(saved))
    /\ ev = Event("load", Body, "", FALSE)
    /\ hist = <<>>
    /\ nav = updateActiveNav(ParsedNav(RootPath,
                [i \in 1..env.numLinks |-> Link(SiteHref(i), FALSE, "absent")]))

\* Pages with complete markup for the navigation, the theme and the
\* lightbox, and no same-page anchor.
Init == InitOn({c \in Markups : Complete(c) /\ ~c.anchors})

\* Pages with any subset of the elements the guarded units look up.
InitAnyMarkup == InitOn({c \in Markups : ~c.anchors})

\* Pages with same-page anchors and the navigation, without theme toggle
\* and lightbox.
InitAnchors ==
    InitOn({c \in Markups : /\ c.anchors /\ c.navToggle /\ c.navMenu
                            /\ ~c.themeToggle /\ ~c.lightbox /\ c.numGallery = 0})

\* The theme state a toggle activation starts from.
ThemeState(d) == [dataTheme |-> d.dataTheme, storedTheme |-> d.storedTheme]

Click ==
    \E t \in Elements :
        LET e == Event("click", t, "", FALSE)
        IN  /\ doc' = DispatchClick(doc, e)
            /\ ev' = e
            /\ hist' = IF ThemeInit /\ t = ThemeToggle
                       THEN (IF hist = <<>> THEN <<>> ELSE <<hist[Len(hist)]>>)
                              \o <<ThemeState(doc)>>
                       ELSE hist
            /\ UNCHANGED <<env, nav>>

\* A keydown goes to the element that holds focus; Shift matters with Tab only.
Keydown ==
    \E k \in Keys, s \in BOOLEAN :
        LET e == Event("keydown", doc.focus, k, s)
        IN  /\ s => k = "Tab"
            /\ doc' = DispatchKeydown(doc, e)
            /\ ev' = e
            /\ UNCHANGED <<env, hist, nav>>

\* The user moves keyboard focus (sequential navigation, pointer).
UserFocus ==
    \E t \in Focusable :
        /\ t # doc.focus
        /\ doc' = [Begin(doc) EXCEPT !.focus = t]
        /\ ev' = Event("focus", t, "", FALSE)
        /\ UNCHANGED <<env, hist, nav>>

\* A new page load: the DOM is rebuilt, localStorage is kept, init() runs.
PageLoad ==
    /\ doc' = init(Parsed(doc.storedTheme))
    /\ ev' = Event("load", Body, "", FALSE)
    /\ hist' = <<>>
    /\ nav' = updateActiveNav(nav)
    /\ UNCHANGED env

Next == Click \/ Keydown \/ UserFocus \/ PageLoad

Spec == Init /\ [][Next]_vars

SpecAnyMarkup == InitAnyMarkup /\ [][Next]_vars

SpecSmoothScroll == InitAnchors /\ [][Next]_vars

(***************************************************************************)
(* updateActiveNav on its own: any path, any links, any prior markers      *)
(***************************************************************************)
LinkLists ==
    UNION {[1..n -> [href : Hrefs, active : BOOLEAN, ariaCurrent : {"page", "absent"}]]
           : n \in 1..MaxLinks}

\* A page with a navigation of Len(links) links and nothing else.
NavOnly(n) ==
    [navToggle |-> TRUE, navMenu |-> TRUE, numLinks |-> n,
     themeToggle |-> FALSE, systemPrefersDark |-> FALSE,
     lightbox |-> FALSE, lightboxImg |-> FALSE, lightboxClose |-> FALSE,
     numGallery |-> 0, anchors |-> FALSE]

InitActiveNav ==
    /\ \E path \in Paths, links \in LinkLists :
          /\ nav = ParsedNav(path, links)
          /\ env = NavOnly(Len(links))
    /\ doc = init(Parsed("unset"))
    /\ ev = Event("load", Body, "", FALSE)
    /\ hist = <<>>

\* init() reaches updateActiveNav.
UpdateActiveNav ==
    /\ ~nav.updated
    /\ nav' = updateActiveNav(nav)
    /\ UNCHANGED <<env, doc, ev, hist>>

\* The visitor follows a link of the site: the same navigation, parsed anew
\* at another path.
Navigate ==
    /\ nav.updated
    /\ \E path \in Paths : nav' = ParsedNav(path, nav.markup)
    /\ UNCHANGED <<env, doc, ev, hist>>

NextActiveNav == UpdateActiveNav \/ Navigate

SpecActiveNav == InitActiveNav /\ [][NextActiveNav]_vars

(***************************************************************************)
(* Properties                                                              *)
(***************************************************************************)
IsClickOn(e, t) == e.type = "click" /\ e.target = t
IsKey(e, k, shift) == e.type = "keydown" /\ e.key = k /\ e.shift = shift

\* The mode a data-theme value applies: anything but 'dark' renders light.
Mode(dataTheme) == IF dataTheme = "dark" THEN "dark" ELSE "light"

\* C1: whenever the trigger and the menu exist, aria-expanded is 'true'
\* exactly when the menu carries 'active', and 'false' otherwise, after every
\* click, keydown and focus move.
C1_AriaMatchesMenu ==
    NavInit => /\ doc.ariaExpanded \in {"true", "false"}
               /\ (doc.ariaExpanded = "true") <=> doc.menuActive

\* C1 witness: the menu was closed through the document listeners (outside
\* click or Escape) and the attribute followed.
C1_Witness ==
    /\ NavInit /\ ~doc.menuActive /\ doc.ariaExpanded = "false"
    /\ doc.focus = NavToggle
    /\ IsKey(ev, "Escape", FALSE)

\* C2 as claimed: two consecutive toggle activations restore data-theme and
\* the stored value exactly.
C2_ExactRoundTrip ==
    Len(hist) = 2 => ThemeState(doc) = hist[1]

\* C2 amended: two consecutive toggle activations restore the applied mode;
\* data-theme and the stored value both end as that mode's name, so each is
\* restored exactly when it already held that name before the first one.
C2_ModeRoundTrip ==
    Len(hist) = 2 =>
        /\ doc.dataTheme = Mode(hist[1].dataTheme)
        /\ doc.storedTheme = Mode(hist[1].dataTheme)
        /\ (doc.dataTheme = hist[1].dataTheme <=> hist[1].dataTheme # "absent")
        /\ (doc.storedTheme = hist[1].storedTheme
              <=> hist[1].storedTheme = Mode(hist[1].dataTheme))

\* C2 witness: the second of two activations from a fresh light page, where
\* the attribute ends 'light' and not absent.
C2_Witness ==
    /\ Len(hist) = 2
    /\ hist[1] = [dataTheme |-> "absent", storedTheme |-> "unset"]
    /\ doc.dataTheme = "light" /\ doc.storedTheme = "light"
    /\ IsClickOn(ev, ThemeToggle)

\* C3: right after a theme-toggle activation the stored value equals the
\* data-theme just written, that value is the opposite of the mode applied
\* before (absent counting as light), and it is 'light' or 'dark'.
C3_StoredMatchesApplied ==
    IsClickOn(ev, ThemeToggle) =>
        /\ hist # <<>>
        /\ doc.storedTheme = doc.dataTheme
        /\ doc.dataTheme \in {"light", "dark"}
        /\ doc.dataTheme # Mode(hist[Len(hist)].dataTheme)

\* C3 witness: an activation on a dark page wrote and stored 'light'.
C3_Witness ==
    /\ IsClickOn(ev, ThemeToggle)
    /\ hist[Len(hist)].dataTheme = "dark"
    /\ doc.dataTheme = "light" /\ doc.storedTheme = "light"

\* C4 as claimed: data-theme is always absent or 'dark'.
C4_AbsentOrDark == doc.dataTheme \in {"absent", "dark"}

\* C4 amended: data-theme is absent, 'dark' or 'light'; it is absent or 'dark'
\* from initialization until the first toggle activation, and 'light' only as
\* the value a toggle activation wrote over 'dark'.
C4_ThemeValues ==
    /\ doc.dataTheme \in {"absent", "dark", "light"}
    /\ (hist = <<>> => doc.dataTheme \in {"absent", "dark"})
    /\ (hist # <<>> => doc.dataTheme \in {"light", "dark"})
    /\ (doc.dataTheme = "light" => hist # <<>> /\ hist[Len(hist)].dataTheme = "dark")

\* C4 witness: a toggle activation has written 'light'.
C4_Witness == doc.dataTheme = "light" /\ hist # <<>> /\ ev.type = "click"

\* C5: on a page with the theme toggle, a load that finds no stored theme
\* leaves data-theme 'dark' under a dark system preference and absent under
\* a light one, and no load changes the stored value.
C5_InitFromSystem ==
    /\ [](ev.type = "load" /\ ThemeInit /\ doc.storedTheme = "unset"
            => doc.dataTheme = IF env.systemPrefersDark THEN "dark" ELSE "absent")
    /\ [][ev'.type = "load" => doc'.storedTheme = doc.storedTheme]_vars

\* C5 witness: a load with nothing stored under a dark system preference.
C5_Witness ==
    /\ ev.type = "load" /\ ThemeInit /\ doc.storedTheme = "unset"
    /\ env.systemPrefersDark /\ doc.dataTheme = "dark"

\* The lightbox unit's part of the document.
LbState(d) == <<d.lbActive, d.lbSrc, d.lbAlt, d.overflow>>

\* e activates a gallery image: a click on it, or Enter while it has focus.
Activates(e) ==
    /\ e.target.kind = "galleryImg"
    /\ e.type = "click" \/ (e.type = "keydown" /\ e.key = "Enter")

\* e is a keydown on a gallery image with a key other than Enter.
OtherKeyOnImage(e) ==
    e.type = "keydown" /\ e.target.kind = "galleryImg" /\ e.key # "Enter"

\* What every activation of the i-th image leaves, by click and by Enter alike.
Shows(d, i) ==
    /\ d.lbSrc = ImgSrc(i) /\ d.lbAlt = ImgAlt(i)
    /\ d.lbActive /\ d.overflow = "hidden" /\ d.focus = LightboxClose

\* C6 as claimed: an activation shows the activated image, and a keydown on
\* a gallery image with any other key changes nothing of the lightbox.
C6_OtherKeysChangeNothing ==
    [][/\ Activates(ev') => Shows(doc', ev'.target.idx)
       /\ OtherKeyOnImage(ev') => LbState(doc') = LbState(doc)]_vars

\* C6 amended: an activation of image i, by click or Enter, open or not,
\* leaves the overlay showing exactly i's src and alt; a keydown on a gallery
\* image with a key other than Enter never opens the overlay nor changes its
\* src/alt, and changes nothing at all unless the key is Escape, which the
\* document listeners still handle and which leaves the overlay closed.
C6_ActivationShowsImage ==
    [][/\ Activates(ev') => Shows(doc', ev'.target.idx)
       /\ OtherKeyOnImage(ev') =>
            /\ doc'.lbSrc = doc.lbSrc /\ doc'.lbAlt = doc.lbAlt
            /\ doc'.lbActive => doc.lbActive
            /\ ev'.key = "Escape" => ~doc'.lbActive
            /\ ev'.key # "Escape" => doc' = doc]_vars

\* C6 witness: Enter on the second image left the overlay showing it.
C6_Witness ==
    /\ IsKey(ev, "Enter", FALSE) /\ ev.target = GalleryImg(2)
    /\ Shows(doc, 2)

\* C7: while the overlay is open, a click on the overlay itself, a click on
\* the close button and an Escape keydown each close it; a click on the
\* overlay's image leaves the lightbox as it is; Escape while it is closed
\* leaves the lightbox as it is.
C7_CloseTriggers ==
    [][/\ ( /\ doc.lbActive
            /\ \/ IsClickOn(ev', Lightbox)
               \/ IsClickOn(ev', LightboxClose)
               \/ IsKey(ev', "Escape", FALSE) )
          => ~doc'.lbActive /\ doc'.overflow = ""
       /\ IsClickOn(ev', LightboxImg) => LbState(doc') = LbState(doc)
       /\ IsKey(ev', "Escape", FALSE) /\ ~doc.lbActive
          => LbState(doc') = LbState(doc)]_vars

\* C7 witness: a click on the backdrop left a once opened overlay closed.
C7_Witness ==
    /\ IsClickOn(ev, Lightbox) /\ ~doc.lbActive /\ doc.overflow = ""
    /\ doc.lbSrc # NoSrc /\ doc.focus = LightboxClose

\* C8: Escape on an open menu closes it, sets aria-expanded 'false' and
\* leaves focus on the trigger; Escape on a closed menu leaves the menu,
\* aria-expanded and focus as they were.
C8_EscapeOnlyWhenOpen ==
    [][IsKey(ev', "Escape", FALSE) =>
        IF doc.menuActive
        THEN ~doc'.menuActive /\ doc'.ariaExpanded = "false" /\ doc'.focus = NavToggle
        ELSE /\ doc'.menuActive = doc.menuActive
             /\ doc'.ariaExpanded = doc.ariaExpanded
             /\ doc'.focus = doc.focus]_vars

\* C8 witness: Escape pressed on a link of the menu ended with the menu
\* closed and focus on the trigger.
C8_Witness ==
    /\ IsKey(ev, "Escape", FALSE) /\ ev.target.kind = "navLink"
    /\ ~doc.menuActive /\ doc.ariaExpanded = "false" /\ doc.focus = NavToggle

\* C9: on a keydown inside the menu, Tab on the last link moves focus to the
\* first and Shift+Tab on the first moves it to the last, suppressing the
\* default, only while the menu is open; any other keydown there (Escape is
\* the document listener's) moves no focus and suppresses no default.
C9_TrapOnlyWhenOpen ==
    [][ev'.type = "keydown" /\ InMenu(ev'.target) /\ ev'.key # "Escape" =>
        IF doc.menuActive /\ IsKey(ev', "Tab", FALSE)
                          /\ ev'.target = NavLink(env.numLinks)
        THEN doc'.focus = NavLink(1) /\ doc'.defaultPrevented
        ELSE IF doc.menuActive /\ IsKey(ev', "Tab", TRUE)
                               /\ ev'.target = NavLink(1)
             THEN doc'.focus = NavLink(env.numLinks) /\ doc'.defaultPrevented
             ELSE doc'.focus = doc.focus /\ ~doc'.defaultPrevented]_vars

\* C10: a trigger click on a closed menu opens it and leaves focus on the
\* first link, or where it was when the menu has no link, without an error;
\* Tab and Shift+Tab inside a menu without links change nothing and raise
\* no error.
C10_OpenFocusesFirstLink ==
    [][/\ IsClickOn(ev', NavToggle) /\ ~doc.menuActive =>
            /\ doc'.menuActive /\ ~doc'.error
            /\ doc'.focus = IF env.numLinks > 0 THEN NavLink(1) ELSE doc.focus
       /\ ev'.type = "keydown" /\ ev'.key = "Tab" /\ InMenu(ev'.target)
            /\ env.numLinks = 0
          => doc' = Begin(doc) /\ ~doc'.error]_vars

\* C10 witness: a menu without links was opened while focus sat on the menu
\* container, and focus stayed there.
C10_Witness ==
    /\ env.numLinks = 0 /\ IsClickOn(ev, NavToggle)
    /\ doc.menuActive /\ doc.focus = NavMenu /\ ~doc.error

\* The lightbox has every element it requires.
LbComplete ==
    env.lightbox /\ env.lightboxImg /\ env.lightboxClose /\ env.numGallery > 0

\* C11: whatever subset of the elements the page provides, neither init()
\* nor any later event raises an exception, and a unit that lacks an element
\* it requires never changes its part of the document.
C11_MissingElementsAreSilent ==
    /\ ~doc.error
    /\ ~NavInit => ~doc.menuActive /\ doc.ariaExpanded = "false"
    /\ ~ThemeInit => doc.dataTheme = "absent" /\ doc.themeLabel = "markup"
    /\ ~LbComplete => LbState(doc) = LbState(Parsed("unset"))

\* The navigation unit's disclosure state.
MenuState(d) == <<d.menuActive, d.ariaExpanded>>

\* C12: a click outside both the trigger and the menu leaves the menu closed
\* with aria-expanded 'false' whatever its state was; a click inside the
\* menu leaves the disclosure state as it was; a click on the trigger
\* toggles it.
C12_OutsideClickCloses ==
    [][ev'.type = "click" =>
        IF InToggle(ev'.target)
        THEN MenuState(doc') = IF doc.menuActive THEN <<FALSE, "false">>
                                                  ELSE <<TRUE, "true">>
        ELSE IF InMenu(ev'.target)
             THEN MenuState(doc') = MenuState(doc)
             ELSE MenuState(doc') = <<FALSE, "false">>]_vars

\* C12 witness: a click on the page body found focus on a menu link and
\* left the menu closed.
C12_Witness ==
    /\ IsClickOn(ev, Body) /\ doc.focus = NavLink(1)
    /\ MenuState(doc) = <<FALSE, "false">>

\* C13: the menu and the overlay are not mutually exclusive.  Nothing in
\* either unit looks at the other: Enter on a gallery image opens the
\* overlay and leaves the menu as it is, open included, and a trigger click
\* toggles the menu and leaves the overlay as it is; so the state with both
\* open (C13_Witness) is reached.
C13_UnitsIndependent ==
    [][/\ IsKey(ev', "Enter", FALSE) /\ ev'.target.kind = "galleryImg"
          => doc'.lbActive /\ MenuState(doc') = MenuState(doc)
       /\ IsClickOn(ev', NavToggle)
          => LbState(doc') = LbState(doc) /\ doc'.menuActive = ~doc.menuActive]_vars

\* C13 witness: the menu and the overlay carry 'active' at the same time,
\* right after Enter on a gallery image.
C13_Witness ==
    /\ doc.menuActive /\ doc.ariaExpanded = "true"
    /\ doc.lbActive /\ doc.overflow = "hidden"
    /\ IsKey(ev, "Enter", FALSE) /\ ev.target.kind = "galleryImg"

\* C14: a click on an anchor whose href is exactly '#' suppresses no
\* default, requests no scroll and changes neither focus nor a tabindex; on
\* any other same-page anchor the default is suppressed, a scroll is
\* requested and focus moves to the target exactly when an element matching
\* the href exists.
C14_HashNeverScrolls ==
    [][ev'.type = "click" /\ ev'.target.kind = "anchor" =>
        IF ev'.target = AnchorFound
        THEN /\ doc'.defaultPrevented /\ doc'.scrollRequested
             /\ doc'.focus = ScrollTarget /\ doc'.targetTabindex = "-1"
        ELSE /\ ~doc'.defaultPrevented /\ ~doc'.scrollRequested
             /\ doc'.focus = doc.focus
             /\ doc'.targetTabindex = doc.targetTabindex]_vars

\* C14 witness: a click on the '#' anchor, after an earlier click had
\* scrolled to the target, left focus and tabindex alone and suppressed
\* nothing.
C14_Witness ==
    /\ IsClickOn(ev, AnchorHash)
    /\ ~doc.defaultPrevented /\ ~doc.scrollRequested
    /\ doc.focus = ScrollTarget /\ doc.targetTabindex = "-1"

\* The three rules of the active-link marker, stated on the path's shape.
EndsInSlash(path) == path[Len(path)] = "/"
RuleHolds(path, href) ==
    \/ \E k \in 0..Len(path) :
          /\ Len(path) - k = Len(href)
          /\ \A j \in 1..Len(href) : path[k + j] = href[j]
    \/ (path = RootPath /\ href = IndexHref)
    \/ (EndsInSlash(path) /\ href = IndexHref)

Marked(link) == link.active /\ link.ariaCurrent = "page"
Unmarked(link) == ~link.active /\ link.ariaCurrent = "absent"

\* C15: after updateActiveNav a link to index.html is marked (class and
\* aria-current) on '/' and on every path ending in '/', and not on
\* '/about.html'; every link is marked exactly when one of the three rules
\* holds, and otherwise carries neither marker whatever it carried before.
C15_ActiveLinkMarking ==
    nav.updated =>
        \A i \in DOMAIN nav.links :
            LET link == nav.links[i]
            IN  /\ Marked(link) \/ Unmarked(link)
                /\ Marked(link) <=> RuleHolds(nav.path, link.href)
                /\ link.href = IndexHref /\ nav.path \in {RootPath, DirPath}
                     => Marked(link)
                /\ link.href = IndexHref /\ nav.path = AboutPath
                     => Unmarked(link)

\* C15 witness: on '/blog/' the index.html link is marked and an about.html
\* link that the markup had marked carries no marker any more.
C15_Witness ==
    /\ nav.updated /\ nav.path = DirPath /\ Len(nav.links) = 2
    /\ nav.links[1].href = IndexHref /\ Marked(nav.links[1])
    /\ nav.links[2].href = AboutHref /\ Marked(nav.markup[2])
    /\ Unmarked(nav.links[2])

MenuCloses == doc.menuActive /\ ~doc'.menuActive

\* C16 as stated: a click that closes the menu, on the trigger or outside,
\* leaves keyboard focus where it was.
C16_ClickCloseKeepsFocus ==
    [][MenuCloses /\ ev'.type = "click" => doc'.focus = doc.focus]_vars

\* C16, amended: closeMenu itself never moves focus.  When a click closes
\* the menu, focus stays where it was (a link of the closed menu included)
\* unless the clicked element has a handler of its own that moves it: a
\* gallery image sends it to the lightbox close button, a same-page anchor
\* with a target to that target.  The only keydown that closes the menu is
\* Escape, and it moves focus to the trigger.
C16_OnlyOtherHandlersMoveFocus ==
    [][MenuCloses =>
        /\ ev'.type = "click" =>
              doc'.focus = IF ev'.target.kind = "galleryImg" THEN LightboxClose
                           ELSE IF ev'.target = AnchorFound THEN ScrollTarget
                           ELSE doc.focus
        /\ ev'.type = "keydown" =>
              IsKey(ev', "Escape", FALSE) /\ doc'.focus = NavToggle]_vars

\* C16 witness: a trigger click closed the menu and focus is still on the
\* second link of the closed menu.
C16_Witness ==
    /\ IsClickOn(ev, NavToggle) /\ MenuState(doc) = <<FALSE, "false">>
    /\ doc.focus = NavLink(2)

\* C17: right after every theme-toggle activation the toggle's aria-label
\* names the next action: it is 'Switch to light mode' exactly when the
\* root's data-theme is now 'dark', and 'Switch to dark mode' exactly when
\* the mode now applied is light.
C17_LabelNamesNextAction ==
    IsClickOn(ev, ThemeToggle) =>
        /\ doc.themeLabel \in {"Switch to light mode", "Switch to dark mode"}
        /\ doc.themeLabel = "Switch to light mode" <=> doc.dataTheme = "dark"
        /\ doc.themeLabel = "Switch to dark mode" <=> Mode(doc.dataTheme) = "light"

\* C17 witness: the second activation in a row went back to light and the
\* label offers dark again.
C17_Witness ==
    /\ IsClickOn(ev, ThemeToggle) /\ Len(hist) = 2
    /\ doc.dataTheme = "light" /\ doc.themeLabel = "Switch to dark mode"

\* C18: on a page with the complete lightbox markup, overlay hidden and body
\* overflow unset at load, document.body's overflow is 'hidden' exactly when
\* the overlay carries 'active', after every event; once the overlay is
\* closed the overflow is back to unset.
C18_OverflowMatchesOverlay ==
    /\ doc.overflow \in {"hidden", ""}
    /\ (doc.overflow = "hidden") <=> doc.lbActive

\* C18 witness: the overlay showed the second image, a click on its
\* backdrop closed it, and page scrolling is restored.
C18_Witness ==
    /\ IsClickOn(ev, Lightbox) /\ doc.lbSrc = ImgSrc(2)
    /\ ~doc.lbActive /\ doc.overflow = ""

\* C19: a page load that follows one or more theme-toggle activations
\* resolves the mode that was applied before it: the freshly parsed root has
\* no data-theme, storage is kept, and after init the dark marker is present
\* exactly when the last activation applied 'dark', whatever the system
\* color-scheme preference is.
C19_ReloadKeepsMode ==
    [][ev'.type = "load" /\ hist # <<>> =>
        /\ doc'.dataTheme \in {"dark", "absent"}
        /\ (doc'.dataTheme = "dark") <=> (doc.dataTheme = "dark")
        /\ (doc'.dataTheme = "dark") <=> (newTheme(hist[Len(hist)].dataTheme) = "dark")
        /\ doc'.storedTheme = doc.storedTheme]_vars

\* C19 witness: a load found 'light' saved (which only an activation
\* writes) on a system that prefers dark, and set no dark marker.
C19_Witness ==
    /\ ev.type = "load" /\ hist = <<>>
    /\ doc.storedTheme = "light" /\ env.systemPrefersDark
    /\ doc.dataTheme = "absent"

\* C20: with the menu and the overlay both open, one Escape keydown reaches
\* the document listeners of both units: the menu ends without 'active' and
\* with aria-expanded 'false', the overlay without 'active', body overflow
\* restored, and focus on the nav trigger.  Every click that opens or closes
\* the overlay lands outside the trigger and the menu and leaves the menu
\* closed.
C20_SharedDocumentEvents ==
    [][/\ IsKey(ev', "Escape", FALSE) /\ doc.menuActive /\ doc.lbActive
          => /\ MenuState(doc') = <<FALSE, "false">>
             /\ ~doc'.lbActive /\ doc'.overflow = ""
             /\ doc'.focus = NavToggle
       /\ ( /\ ev'.type = "click"
            /\ \/ doc'.lbActive # doc.lbActive
               \/ ev'.target.kind = "galleryImg"
               \/ doc.lbActive /\ ev'.target \in {Lightbox, LightboxClose} )
          => /\ ~InToggle(ev'.target) /\ ~InMenu(ev'.target)
             /\ MenuState(doc') = <<FALSE, "false">>]_vars

\* C20 witness: Escape was pressed on the overlay's close button; the menu
\* and the overlay are both closed, scrolling is restored and focus went
\* from the close button to the nav trigger.
C20_Witness ==
    /\ IsKey(ev, "Escape", FALSE) /\ ev.target = LightboxClose
    /\ MenuState(doc) = <<FALSE, "false">>
    /\ ~doc.lbActive /\ doc.overflow = "" /\ doc.lbSrc # NoSrc
    /\ doc.focus = NavToggle

====
